---- MODULE Spec2Model ----
(* Block-level power dispatch of power_forecasting.py: the per-block        *)
(* pipeline process_block (demand adjustment, must-run allocation, LP over  *)
(* the available generators, grid residual) and the thread-pool fan-out and *)
(* aggregation of run_normal.  Power values (MW) are small naturals, energy *)
(* (kWh) is power times DEMAND_CONVERSION_FACTOR.                           *)
EXTENDS Integers, Sequences, FiniteSets, TLC

\* ---------------------------------------------------------------- constants
DEMAND_CONVERSION_FACTOR == 250
MUST_RUN_TYPE == "Must run"
AVAILABLE_TYPE == "Available"
NUM_WORKERS == 8

\* ------------------------------------------------------------------- bounds
MaxDate == 2
MaxBlock == 2
MaxTasks == 4
MaxDemand == 3
MaxPower == 2
MaxAdjust == 1
MaxRate == 2

Dates == 1..MaxDate
Blocks == 1..MaxBlock

\* Python's None; every value it is compared with is a record as well.
None == [none |-> TRUE]

\* A DataFrame column label for a block: the integer or its string form.
IntKey(block) == <<"int", block>>
StrKey(block) == <<"str", block>>

Min(a, b) == IF a <= b THEN a ELSE b

\* ------------------------------------------------------- reference look-ups
\* df[df['Date'] == date] is empty
RowEmpty(df, date) == date \notin df.rows

\* block_column = block if block in row.columns else str(block)
BlockColumn(df, block) ==
    IF IntKey(block) \in df.columns THEN IntKey(block) ELSE StrKey(block)

adjust_demand_with_open_access(date, block, demand_mw, oa) ==
    IF RowEmpty(oa, date)
    THEN <<demand_mw * DEMAND_CONVERSION_FACTOR, 0>>
    ELSE IF BlockColumn(oa, block) \notin oa.columns
    THEN <<demand_mw * DEMAND_CONVERSION_FACTOR, 0>>
    ELSE LET oa_value_mw == oa.cell[<<date, BlockColumn(oa, block)>>]
             adjusted_demand_mw == demand_mw - oa_value_mw
         IN  <<adjusted_demand_mw * DEMAND_CONVERSION_FACTOR, oa_value_mw>>

adjust_demand_with_bank(date, block, demand_kwh, bank) ==
    IF RowEmpty(bank, date)
    THEN <<demand_kwh, 0>>
    ELSE IF BlockColumn(bank, block) \notin bank.columns
    THEN <<demand_kwh, 0>>
    ELSE LET bank_value_mw == bank.cell[<<date, BlockColumn(bank, block)>>]
             bank_value_kwh == bank_value_mw * DEMAND_CONVERSION_FACTOR
         IN  <<demand_kwh + bank_value_kwh, bank_value_mw>>

\* raises ValueError when the date row or the block column is missing
load_grid_cost(date, block, grid) ==
    IF RowEmpty(grid, date)
    THEN [raised |-> TRUE, value |-> 0]
    ELSE IF BlockColumn(grid, block) \notin grid.columns
    THEN [raised |-> TRUE, value |-> 0]
    ELSE [raised |-> FALSE, value |-> grid.cell[<<date, BlockColumn(grid, block)>>]]

\* generator_data.loc[generator_data['Date'] == date, block].values[0]:
\* KeyError without the integer block column, IndexError without the date row
SeriesLookup(generator_data, date, block) ==
    IF IntKey(block) \notin generator_data.columns
    THEN [raised |-> TRUE, value |-> 0]
    ELSE IF date \notin generator_data.rows
    THEN [raised |-> TRUE, value |-> 0]
    ELSE [raised |-> FALSE, value |-> generator_data.cell[<<date, IntKey(block)>>]]

\* generators[generators['Type of Plant'] == kind], in list order
RECURSIVE OfType(_, _)
OfType(generators, kind) ==
    IF generators = <<>> THEN <<>>
    ELSE IF Head(generators).Type = kind
         THEN <<Head(generators)>> \o OfType(Tail(generators), kind)
         ELSE OfType(Tail(generators), kind)

\* ------------------------------------------------------- must-run allocation
\* Lines 214-222 over the must-run generators in list order.  A generator
\* whose code has no preloaded series is skipped; a series without the
\* (date, block) entry raises.
RECURSIVE MustRunLoop(_, _, _, _, _)
MustRunLoop(gens, preloaded, date, block, acc) ==
    IF gens = <<>> THEN acc
    ELSE LET g == Head(gens)
         IN  IF g.Code \notin DOMAIN preloaded
             THEN MustRunLoop(Tail(gens), preloaded, date, block, acc)
             ELSE LET r == SeriesLookup(preloaded[g.Code], date, block)
                      power_kwh == r.value * DEMAND_CONVERSION_FACTOR
                  IN  IF r.raised
                      THEN [acc EXCEPT !.raised = TRUE]
                      ELSE MustRunLoop(Tail(gens), preloaded, date, block,
                             [raised  |-> FALSE,
                              power   |-> acc.power + power_kwh,
                              cost    |-> acc.cost + power_kwh * g.variable_cost,
                              details |-> Append(acc.details,
                                            <<g.Code, power_kwh, power_kwh * g.variable_cost>>)])

calculate_must_run_power(generators, preloaded, date, block) ==
    MustRunLoop(OfType(generators, MUST_RUN_TYPE), preloaded, date, block,
                [raised |-> FALSE, power |-> 0, cost |-> 0, details |-> <<>>])

\* ------------------------------------------------------------ the block's LP
\* One LpVariable per g["name"] of the frame it is given, bounds [0, 0].
setup_optimization_problem(generators) ==
    [n \in {generators[i].name : i \in DOMAIN generators} |->
        [lowBound |-> 0, upBound |-> 0]]

\* Lines 229-235: the upper bound of the variable named g["name"] becomes the
\* generator's converted availability; generators without a series keep the
\* bound they have; a series without the entry raises.
RECURSIVE SetUpperBounds(_, _, _, _, _)
SetUpperBounds(gens, preloaded, date, block, vars) ==
    IF gens = <<>> THEN [raised |-> FALSE, vars |-> vars]
    ELSE LET g == Head(gens)
         IN  IF g.Code \notin DOMAIN preloaded
             THEN SetUpperBounds(Tail(gens), preloaded, date, block, vars)
             ELSE LET r == SeriesLookup(preloaded[g.Code], date, block)
                      power_kwh == r.value * DEMAND_CONVERSION_FACTOR
                  IN  IF r.raised
                      THEN [raised |-> TRUE, vars |-> vars]
                      ELSE SetUpperBounds(Tail(gens), preloaded, date, block,
                             [vars EXCEPT ![g.name].upBound = power_kwh])

\* pulp.lpSum(gen_power_vars[g['name']] for g in available_generators): the
\* coefficient of a variable is the number of generators carrying its name.
LpSum(gens) ==
    [n \in {gens[i].name : i \in DOMAIN gens} |->
        Cardinality({i \in DOMAIN gens : gens[i].name = n})]

\* The basic optimal solutions of  max sum c[n]*x[n]  subject to
\* sum c[n]*x[n] <= rhs, 0 <= x[n] <= upBound[n]: fill the variables in some
\* order, each as far as its bound and the remaining right-hand side allow.
RECURSIVE Vertices(_, _, _, _)
Vertices(names, coef, vars, rhs) ==
    IF names = {} THEN {<<>>}
    ELSE UNION {
           LET v == Min(vars[n].upBound, rhs \div coef[n])
           IN  { (n :> v) @@ x :
                   x \in Vertices(names \ {n}, coef, vars, rhs - coef[n] * v) }
           : n \in names }

\* prob.solve(): the solver's status and, when Optimal, the values it left in
\* the variables.  The solver is an external process: any status may come
\* back, or the call may raise.
SolverStatus == {"Optimal", "Infeasible", "Raise"}

RECURSIVE SumOver(_, _, _)
SumOver(gens, varValue, weighted) ==
    IF gens = <<>> THEN 0
    ELSE varValue[Head(gens).name] * (IF weighted THEN Head(gens).variable_cost ELSE 1)
         + SumOver(Tail(gens), varValue, weighted)

\* Lines 241-248 after the solve.
available_generators_result(gens, status, varValue) ==
    IF status = "Optimal"
    THEN [met     |-> SumOver(gens, varValue, FALSE),
          cost    |-> SumOver(gens, varValue, TRUE),
          details |-> [i \in DOMAIN gens |->
                         <<gens[i].Code, varValue[gens[i].name],
                           varValue[gens[i].name] * gens[i].variable_cost>>]]
    ELSE [met |-> 0, cost |-> 0, details |-> <<>>]

\* The grid is charged the whole remaining demand: the dispatched energy is
\* not taken off.
exchange_quantity_whole(remaining, available_gen_demand_met) ==
    IF available_gen_demand_met < remaining THEN remaining ELSE 0

\* Lines 187-188: what the grid has to supply.
exchange_quantity(remaining, available_gen_demand_met) ==
    IF available_gen_demand_met < remaining
    THEN remaining - available_gen_demand_met
    ELSE 0

\* The operands of line 162 exchanged.
remaining_demand_swapped(demand_kwh, must_run_power) == must_run_power - demand_kwh

\* Line 162.
remaining_demand(demand_kwh, must_run_power) == demand_kwh - must_run_power

\* process_block without its handler: the exception stays in the future.
process_block_reraise(outcome) == outcome

\* process_block's "except Exception: return None".
process_block_except(outcome) ==
    IF outcome.raised THEN [raised |-> FALSE, value |-> None] ELSE outcome

\* run_normal's "if result: results.append(result)".
collect(res, result) ==
    IF result # None THEN Append(res, result) ELSE res

\* Lines 192-206: the dict optimize_power_for_demand returns.
block_result(date, block, demand_kwh, must_run, available, exchange, grid_cost) ==
    [Date                        |-> date,
     Block                       |-> block,
     Demand                      |-> demand_kwh,
     Total_Demand_Met            |-> demand_kwh,
     Must_Run_Generators_Used    |-> must_run.power,
     Available_Generators_Used   |-> available.met,
     Grid_Consumption            |-> exchange,
     Total_Cost                  |-> must_run.cost + available.cost + exchange * grid_cost,
     Grid_Rate                   |-> grid_cost,
     OA_Used                     |-> None,
     Bank_Adjustment             |-> None,
     Must_Run_Generator_Details  |-> must_run.details,
     Available_Generator_Details |-> available.details]

\* Lines 261-263: storing into the result raises TypeError when it is None.
process_block_tail(result, oa_value_mw, bank_value_mw) ==
    IF result = None
    THEN [raised |-> TRUE, value |-> None]
    ELSE [raised |-> FALSE,
          value  |-> [result EXCEPT !.OA_Used = oa_value_mw,
                                    !.Bank_Adjustment = bank_value_mw]]

\* Lines 301-311: the report row of a collected result.
report_row(r) ==
    [Date                        |-> r.Date,
     Block                       |-> r.Block,
     Demand                      |-> r.Demand,
     OA_Used                     |-> r.OA_Used,
     Bank_Adjustment             |-> r.Bank_Adjustment,
     Net_Demand                  |-> r.Demand - r.OA_Used * DEMAND_CONVERSION_FACTOR
                                       + r.Bank_Adjustment * DEMAND_CONVERSION_FACTOR,
     Must_Run_Generators_Used    |-> r.Must_Run_Generators_Used,
     Must_Run_Generator_Details  |-> r.Must_Run_Generator_Details,
     Available_Generators_Used   |-> r.Available_Generators_Used,
     Available_Generator_Details |-> r.Available_Generator_Details,
     Grid_Consumption            |-> r.Grid_Consumption,
     Grid_Rate                   |-> r.Grid_Rate,
     Total_Cost                  |-> r.Total_Cost]

\* -------------------------------------------------------------------- state
VARIABLES
    df_demand,             \* Demand.xlsx: rows (dates) and cell[date, block] in MW
    df_generators,         \* generator_mod.xlsx: the generator list
    preloaded_generators,  \* generator code -> availability series
    df_grid_cost,          \* Rate.xlsx
    df_oa,                 \* OA.xlsx
    df_bank,               \* Bank.xlsx
    range,                 \* start_date, end_date, start_block, end_block
    main,                  \* where run_normal is
    submitted,             \* number of futures submitted so far
    task,                  \* (date, block) -> the frame and future of its task
    collected,             \* futures as_completed has yielded
    results,               \* the list run_normal appends to
    report,                \* df_results as written out
    LpSolverDefault        \* pulp.LpSolverDefault: the task that set it last

vars == <<df_demand, df_generators, preloaded_generators, df_grid_cost, df_oa,
          df_bank, range, main, submitted, task, collected, results, report,
          LpSolverDefault>>

inputs == <<df_demand, df_generators, preloaded_generators, df_grid_cost, df_oa,
            df_bank, range>>

Pairs == Dates \X Blocks

\* df_filtered's dates, in file order (ascending)
df_filtered == {d \in df_demand.rows : d >= range.start_date /\ d <= range.end_date}

RECURSIVE Ascending(_)
Ascending(S) ==
    IF S = {} THEN <<>>
    ELSE LET m == CHOOSE x \in S : \A y \in S : x <= y
         IN  <<m>> \o Ascending(S \ {m})

\* Lines 286-290: the (date, block) pairs in the order they are submitted.
RECURSIVE SubmitOrder(_, _)
SubmitOrder(dates, blocks) ==
    IF dates = <<>> THEN <<>>
    ELSE [i \in DOMAIN blocks |-> <<Head(dates), blocks[i]>>]
         \o SubmitOrder(Tail(dates), blocks)

futures == SubmitOrder(Ascending(df_filtered),
                       Ascending(range.start_block .. range.end_block))

\* A task's frame before it has been submitted, and what is kept of it once
\* process_block has returned: the future's result and the number of LP solves.
Idle == [pc |-> "unsubmitted", demand_mw |-> 0, demand_kwh |-> 0,
         oa_value_mw |-> 0, bank_value_mw |-> 0, gen_power_vars |-> <<>>,
         must_run |-> None, remaining |-> 0, grid_cost |-> 0,
         objective |-> <<>>, rhs |-> 0, solves |-> 0, result |-> None,
         exception |-> FALSE]

Finished(t, outcome) ==
    [Idle EXCEPT !.pc = "finished", !.solves = t.solves,
                 !.result = process_block_except(outcome).value,
                 !.exception = process_block_except(outcome).raised]

Running == {p \in Pairs : task[p].pc \in {"adjusted", "solving"}}

Raised == [raised |-> TRUE, value |-> None]

\* ------------------------------------------------------------------ actions
\* run_normal, lines 286-290: submit the next (date, block) of the grid.
Submit ==
    /\ main = "submit"
    /\ submitted < Len(futures)
    /\ LET p == futures[submitted + 1]
       IN  task' = [task EXCEPT ![p] =
                      [Idle EXCEPT !.pc = "queued", !.demand_mw = df_demand.cell[p]]]
    /\ submitted' = submitted + 1
    /\ main' = IF submitted + 1 = Len(futures) THEN "collect" ELSE "submit"
    /\ UNCHANGED <<inputs, collected, results, report, LpSolverDefault>>

\* A pool worker takes the task: process_block, lines 253-258.
TaskStart(p) ==
    /\ task[p].pc = "queued"
    /\ Cardinality(Running) < NUM_WORKERS
    /\ LET oa   == adjust_demand_with_open_access(p[1], p[2], task[p].demand_mw, df_oa)
           bank == adjust_demand_with_bank(p[1], p[2], oa[1], df_bank)
       IN  task' = [task EXCEPT ![p] =
                      [@ EXCEPT !.pc = "adjusted",
                                !.demand_kwh = bank[1],
                                !.oa_value_mw = oa[2],
                                !.bank_value_mw = bank[2],
                                !.gen_power_vars = setup_optimization_problem(df_generators)]]
    /\ LpSolverDefault' = p
    /\ UNCHANGED <<inputs, main, submitted, collected, results, report>>

\* optimize_power_for_demand up to the solve: lines 159-180 and 228-238.
TaskAllocate(p) ==
    /\ task[p].pc = "adjusted"
    /\ LET t         == task[p]
           must_run  == calculate_must_run_power(df_generators, preloaded_generators, p[1], p[2])
           remaining == remaining_demand(t.demand_kwh, must_run.power)
           grid      == load_grid_cost(p[1], p[2], df_grid_cost)
           available == OfType(df_generators, AVAILABLE_TYPE)
           bounds    == SetUpperBounds(available, preloaded_generators, p[1], p[2],
                                       t.gen_power_vars)
           next ==
             IF must_run.raised THEN Finished(t, Raised)
             ELSE IF remaining < 0
             THEN Finished(t, process_block_tail(None, t.oa_value_mw, t.bank_value_mw))
             ELSE IF grid.raised
             THEN Finished(t, process_block_tail(None, t.oa_value_mw, t.bank_value_mw))
             ELSE IF remaining > 0
             THEN IF bounds.raised THEN Finished(t, Raised)
                  ELSE [t EXCEPT !.pc = "solving",
                                 !.must_run = must_run,
                                 !.remaining = remaining,
                                 !.grid_cost = grid.value,
                                 !.gen_power_vars = bounds.vars,
                                 !.objective = LpSum(available),
                                 !.rhs = remaining]
             \* line 205 reads available_gen_details, which is unbound here
             ELSE Finished(t, Raised)
       IN  task' = [task EXCEPT ![p] = next]
    /\ UNCHANGED <<inputs, main, submitted, collected, results, report, LpSolverDefault>>

\* prob.solve() and the rest of the block: lines 239-248, 184-206, 261-263.
TaskSolve(p) ==
    /\ task[p].pc = "solving"
    /\ \E status \in SolverStatus :
       \E varValue \in Vertices(DOMAIN task[p].objective, task[p].objective,
                                task[p].gen_power_vars, task[p].rhs) :
         LET t         == [task[p] EXCEPT !.solves = @ + 1]
             available == available_generators_result(
                              OfType(df_generators, AVAILABLE_TYPE), status, varValue)
             exchange  == exchange_quantity(t.remaining, available.met)
             result    == block_result(p[1], p[2], t.demand_kwh, t.must_run,
                                       available, exchange, t.grid_cost)
         IN  task' = [task EXCEPT ![p] =
                        IF status = "Raise" THEN Finished(t, Raised)
                        ELSE Finished(t, process_block_tail(result, t.oa_value_mw,
                                                             t.bank_value_mw))]
    /\ UNCHANGED <<inputs, main, submitted, collected, results, report, LpSolverDefault>>

\* as_completed yields a finished future: lines 292-295.
Collect(p) ==
    /\ main = "collect"
    /\ task[p].pc = "finished"
    /\ p \notin collected
    /\ collected' = collected \cup {p}
    /\ IF task[p].exception
       THEN main' = "error" /\ results' = results
       ELSE main' = main /\ results' = collect(results, task[p].result)
    /\ UNCHANGED <<inputs, submitted, task, report, LpSolverDefault>>

\* Lines 298-315: the report, in the order of results; with no result at all
\* the empty frame has no 'Demand' column and line 301 raises KeyError.
Aggregate ==
    /\ main = "collect"
    /\ collected = {futures[i] : i \in DOMAIN futures}
    /\ IF results = <<>>
       THEN main' = "error" /\ report' = report
       ELSE main' = "done" /\ report' = [i \in DOMAIN results |-> report_row(results[i])]
    /\ UNCHANGED <<inputs, submitted, task, collected, results, LpSolverDefault>>

Next ==
    \/ Submit
    \/ \E p \in Pairs : TaskStart(p)
    \/ \E p \in Pairs : TaskAllocate(p)
    \/ \E p \in Pairs : TaskSolve(p)
    \/ \E p \in Pairs : Collect(p)
    \/ Aggregate

\* ------------------------------------------------------------------- inputs
IntColumns(blocks) == {IntKey(b) : b \in blocks}
StrColumns(blocks) == {StrKey(b) : b \in blocks}

\* A frame with every cell set to v.
Frame(dates, columns, v) ==
    [rows |-> dates, columns |-> columns, cell |-> [k \in dates \X columns |-> v]]

\* The frames over the given dates and blocks: without the rows, without the
\* block columns, with string column labels, or with integer column labels
\* and any value of Val in the cells.
Frames(dates, blocks, Val, v) ==
    {Frame({}, IntColumns(blocks), v), Frame(dates, {}, v),
     Frame(dates, StrColumns(blocks), v)}
    \cup {Frame(dates, IntColumns(blocks), w) : w \in Val}

Generator(code, name, kind, cost) ==
    [Code |-> code, name |-> name, Type |-> kind, variable_cost |-> cost]

\* Generator lists with unique codes; no name is carried by more than two
\* generators, so the LP's basic solutions are whole numbers of kWh.
GeneratorLists ==
    {<<Generator("M1", "Solar", MUST_RUN_TYPE, 2), Generator("A1", "Hydro", AVAILABLE_TYPE, 3)>>,
     <<Generator("A1", "Hydro", AVAILABLE_TYPE, 3), Generator("A2", "Gas", AVAILABLE_TYPE, 4)>>,
     <<Generator("A1", "Hydro", AVAILABLE_TYPE, 3), Generator("A2", "Hydro", AVAILABLE_TYPE, 4)>>,
     <<Generator("A1", "Hydro", AVAILABLE_TYPE, 3)>>,
     <<Generator("M1", "Solar", MUST_RUN_TYPE, 2), Generator("M2", "Wind", MUST_RUN_TYPE, 1)>>}

Codes(generators) == {generators[i].Code : i \in DOMAIN generators}

\* preload_generator_data: a series for some of the codes
Preloads(generators, series) ==
    UNION {[S -> series] : S \in SUBSET Codes(generators)}

Start ==
    /\ main = "submit"
    /\ submitted = 0
    /\ task = [p \in Pairs |-> Idle]
    /\ collected = {}
    /\ results = <<>>
    /\ report = <<>>
    /\ LpSolverDefault = <<0, 0>>

\* One (date, block), every shape of reference data.
InitBlock ==
    /\ range = [start_date |-> 1, end_date |-> 1, start_block |-> 1, end_block |-> 1]
    /\ df_demand \in {[rows |-> Dates, cell |-> [p \in Pairs |-> d]] : d \in 0..MaxDemand}
    /\ df_generators \in GeneratorLists
    /\ preloaded_generators \in
         Preloads(df_generators, Frames({1}, {1}, 0..MaxPower, MaxPower))
    /\ df_oa \in Frames({1}, {1}, 0..MaxAdjust, MaxAdjust)
    /\ df_bank \in Frames({1}, {1}, 0..MaxAdjust, MaxAdjust)
    /\ df_grid_cost \in Frames({1}, {1}, 1..MaxRate, MaxRate)
    /\ Start

\* A grid of at most MaxTasks (date, block) pairs starting at (1, 1).  The
\* dates of LowDates have no demand, which the must-run output exceeds; the
\* grid table may lack the column of one block.
InitRun ==
    /\ \E ed \in Dates, eb \in Blocks :
         /\ ed * eb <= MaxTasks
         /\ range = [start_date |-> 1, end_date |-> ed, start_block |-> 1, end_block |-> eb]
    /\ \E low \in SUBSET Dates :
         df_demand = [rows |-> Dates,
                      cell |-> [p \in Pairs |-> IF p[1] \in low THEN 0 ELSE MaxDemand]]
    /\ df_generators = <<Generator("M1", "Solar", MUST_RUN_TYPE, 2),
                         Generator("A1", "Hydro", AVAILABLE_TYPE, 3)>>
    /\ preloaded_generators = [c \in {"M1", "A1"} |-> Frame(Dates, IntColumns(Blocks), 1)]
    /\ df_oa = Frame(Dates, IntColumns(Blocks), MaxAdjust)
    /\ df_bank = Frame({}, IntColumns(Blocks), 0)
    /\ \E b \in Blocks :
         df_grid_cost \in {Frame(Dates, IntColumns(Blocks), 1),
                           Frame(Dates, IntColumns(Blocks \ {b}), 1)}
    /\ Start

Spec == InitRun /\ [][Next]_vars

SpecBlock == InitBlock /\ [][Next]_vars

\* --------------------------------------------------- what the claims speak of
\* The value a table holds for (date, block), 0 when it has none.
ValueOrZero(df, p) ==
    IF p[1] \in df.rows /\ (IntKey(p[2]) \in df.columns \/ StrKey(p[2]) \in df.columns)
    THEN df.cell[<<p[1], IF IntKey(p[2]) \in df.columns THEN IntKey(p[2]) ELSE StrKey(p[2])>>]
    ELSE 0

HasValue(df, p) ==
    p[1] \in df.rows /\ (IntKey(p[2]) \in df.columns \/ StrKey(p[2]) \in df.columns)

\* rawDemand - OA + bank, in kWh
NetDemandKwh(p) ==
    (df_demand.cell[p] - ValueOrZero(df_oa, p) + ValueOrZero(df_bank, p))
        * DEMAND_CONVERSION_FACTOR

\* The generator has a series with an entry for (date, block).
HasData(g, p) ==
    /\ g.Code \in DOMAIN preloaded_generators
    /\ p[1] \in preloaded_generators[g.Code].rows
    /\ IntKey(p[2]) \in preloaded_generators[g.Code].columns

\* The generator's converted availability for (date, block), 0 without data.
OwnBound(g, p) ==
    IF HasData(g, p)
    THEN preloaded_generators[g.Code].cell[<<p[1], IntKey(p[2])>>] * DEMAND_CONVERSION_FACTOR
    ELSE 0

MustRunGenerators == OfType(df_generators, MUST_RUN_TYPE)
AvailableGenerators == OfType(df_generators, AVAILABLE_TYPE)

RECURSIVE SumBounds(_, _)
SumBounds(gens, p) ==
    IF gens = <<>> THEN 0 ELSE OwnBound(Head(gens), p) + SumBounds(Tail(gens), p)

Succeeded(p) == task[p].pc = "finished" /\ task[p].result # None
Failed(p) == task[p].pc = "finished" /\ task[p].result = None

Submitted == {futures[i] : i \in DOMAIN futures}

\* The rows of a list of results or of the report that belong to p.
RowsOf(rows, p) ==
    {i \in DOMAIN rows : rows[i] # None /\ rows[i].Date = p[1] /\ rows[i].Block = p[2]}

\* ------------------------------------------------------------------- claims
\* C1 (conservation): in every result process_block returns, must-run energy
\* plus available-generator energy plus grid energy is the block's net demand,
\* raw demand minus OA plus bank in kWh, whatever the solver's status was.
Conservation ==
    \A p \in Pairs :
        Succeeded(p) =>
            task[p].result.Must_Run_Generators_Used
              + task[p].result.Available_Generators_Used
              + task[p].result.Grid_Consumption = NetDemandKwh(p)

\* A block served by all three sources at once.
ConservationWitness ==
    \E p \in Pairs :
        /\ Succeeded(p)
        /\ task[p].result.Must_Run_Generators_Used > 0
        /\ task[p].result.Available_Generators_Used > 0
        /\ task[p].result.Grid_Consumption > 0

\* C2 (failure isolation): the collected results hold exactly one result for
\* every collected pair that succeeded and none for a pair that failed, and
\* run_normal leaves the collection loop only when every submitted pair has
\* been collected: no failing task ends the collection early.
FailureIsolation ==
    /\ \A p \in Pairs :
         Cardinality(RowsOf(results, p)) =
            (IF p \in collected /\ task[p].result # None THEN 1 ELSE 0)
    /\ Len(results) = Cardinality({p \in collected : task[p].result # None})
    /\ main \in {"done", "error"} =>
         /\ collected = Submitted
         /\ \A p \in Submitted : task[p].pc = "finished"

\* A finished run in which one pair failed and another succeeded.
FailureIsolationWitness ==
    /\ main = "done"
    /\ \E p, q \in Submitted : Failed(p) /\ Succeeded(q)

\* C3 (report order): the rows of the report ascend by date, then block.
ReportSorted ==
    main = "done" =>
        \A i, j \in DOMAIN report :
            i < j => \/ report[i].Date < report[j].Date
                     \/ /\ report[i].Date = report[j].Date
                        /\ report[i].Block < report[j].Block

\* The residual the block would hand to the grid: remaining demand minus what
\* an optimal dispatch of the available generators covers.
MustRunEnergy(p) == SumBounds(MustRunGenerators, p)
RemainingDemand(p) == NetDemandKwh(p) - MustRunEnergy(p)
Residual(p) == RemainingDemand(p) - Min(RemainingDemand(p), SumBounds(AvailableGenerators, p))

\* Every generator of the list has its data point and no two share a name.
GeneratorDataPresent(p) ==
    /\ \A i \in DOMAIN df_generators : HasData(df_generators[i], p)
    /\ \A i, j \in DOMAIN df_generators :
         df_generators[i].name = df_generators[j].name => i = j

\* C4 (missing grid rate): a block without a grid rate, otherwise well formed,
\* fails when its residual is positive and does not fail when its residual
\* is 0.
MissingGridRate ==
    \A p \in Pairs :
        (/\ task[p].pc = "finished"
         /\ ~HasValue(df_grid_cost, p)
         /\ GeneratorDataPresent(p)
         /\ RemainingDemand(p) >= 0)
        => /\ Residual(p) > 0 => task[p].result = None
           /\ Residual(p) = 0 => task[p].result # None

\* C5 (missing must-run data): a block with a must-run generator that has no
\* series, or no entry for (date, block), yields no result.
MissingMustRunData ==
    \A p \in Pairs :
        (/\ task[p].pc = "finished"
         /\ \E i \in DOMAIN MustRunGenerators : ~HasData(MustRunGenerators[i], p))
        => task[p].result = None

\* C6 (zero remaining demand): with all reference data present and net demand
\* equal to the must-run energy, the block succeeds with no available and no
\* grid energy and the must-run cost as its total cost.
ZeroRemainingDemand ==
    \A p \in Pairs :
        (/\ task[p].pc = "finished"
         /\ GeneratorDataPresent(p)
         /\ HasValue(df_grid_cost, p)
         /\ RemainingDemand(p) = 0)
        => /\ task[p].result # None
           /\ task[p].result.Available_Generators_Used = 0
           /\ task[p].result.Grid_Consumption = 0
           /\ task[p].result.Total_Cost =
                calculate_must_run_power(df_generators, preloaded_generators,
                                         p[1], p[2]).cost

\* The must-run output calculate_must_run_power finds exceeds the net demand.
MustRunExceedsDemand(p) ==
    LET must_run == calculate_must_run_power(df_generators, preloaded_generators,
                                             p[1], p[2])
    IN  ~must_run.raised /\ must_run.power > NetDemandKwh(p)

\* C7 (negative remaining demand): a block whose must-run energy exceeds its
\* net demand never reaches the LP solve, ends without a result, and has no
\* row among the collected results or in the report.
NegativeRemainingDemand ==
    \A p \in Pairs :
        MustRunExceedsDemand(p) =>
            /\ task[p].pc # "solving"
            /\ task[p].solves = 0
            /\ task[p].pc = "finished" => task[p].result = None
            /\ RowsOf(results, p) = {}
            /\ RowsOf(report, p) = {}

\* A finished run with a report from which such a block is missing.
NegativeRemainingDemandWitness ==
    /\ main = "done"
    /\ report # <<>>
    /\ \E p \in Submitted : MustRunExceedsDemand(p) /\ Failed(p) /\ p \in collected

\* C8 (derived net demand): the Net Demand of every report row is the
\* block's raw demand minus OA plus bank, in kWh, each applied once.
DerivedNetDemand ==
    main = "done" =>
        \A i \in DOMAIN report :
            report[i].Net_Demand = NetDemandKwh(<<report[i].Date, report[i].Block>>)

\* C9 (capacity bound): in a successful block no available generator is
\* reported above its own converted availability, and the available energy
\* is at most the sum of those bounds.
CapacityBound ==
    \A p \in Pairs :
        Succeeded(p) =>
            /\ \A i \in DOMAIN task[p].result.Available_Generator_Details :
                 task[p].result.Available_Generator_Details[i][2]
                    <= OwnBound(AvailableGenerators[i], p)
            /\ task[p].result.Available_Generators_Used
                 <= SumBounds(AvailableGenerators, p)

\* C10 (task self-containment): while a task runs, the solver configuration
\* it set is the one in place: no other task writes what it wrote.
TaskSelfContained ==
    \A p \in Running : LpSolverDefault = p

====
